---- MODULE Spec2Model ----
(***************************************************************************)
(* ProductsService of digizone (src/unnamed/part_000, lines 72-727): the   *)
(* product / SKU / license / review handlers over the product store, the  *)
(* order store, the payment ledger (Stripe) and the media host            *)
(* (Cloudinary).                                                           *)
(*                                                                         *)
(* A handler that runs alone is one action: it applies every effect the   *)
(* code issues up to the point where the call returns or throws, and      *)
(* records in `last` the call, the error it ended with ("" on success)    *)
(* and the sequence of collaborator calls it issued (`trace`, the one that *)
(* rejected included).  An                                                 *)
(* awaited collaborator call may reject; the point of rejection is the    *)
(* input `failAt` (0 = nothing rejects); a path that never reaches the     *)
(* call takes failAt = 0.                                                  *)
(***************************************************************************)
EXTENDS Integers, Sequences, FiniteSets, TLC

VARIABLES
    products,        \* product store: _id -> Products document
    licenses,        \* license store: set of License documents
    orders,          \* order store: set of Orders documents
    stripeProducts,  \* payment ledger: product id -> ledger product
    stripePrices,    \* payment ledger: price id -> ledger price
    mediaAssets,     \* media host: public_ids of the stored images
    nextId,          \* source of fresh identifiers (ObjectId, ledger id, Date.now())
    last,            \* the last handler call: op, args, error, trace, result
    reqs             \* in-flight addProductReview requests (concurrent runs)

vars == <<products, licenses, orders, stripeProducts, stripePrices,
          mediaAssets, nextId, last, reqs>>

----------------------------------------------------------------------------
(* Bounds *)

MaxRating == 4
MaxId == 3
MaxSkuId == 2
MaxProductId == 3
MaxPage == 2
MaxReqs == 2
MaxBatch == 2

(* Values *)

Undefined == "undefined"
ProductIds == {"P1", "P2"}
Ratings == 1..MaxRating
Users == { [_id |-> "C1", name |-> "Ann"],
           [_id |-> "C2", name |-> "Bob"],
           [_id |-> "C3", name |-> "Cy"] }
Reviews == {"msg"}

(* Errors the handlers end with; "" is a successful return. *)
ErrProduct == "Error: Product does not exist"
ErrReview == "Error: Review does not exist"
ErrSku == "Error: Sku does not exist"
ErrType == "TypeError"
ErrUpstream == "UpstreamFailure"
ErrAlreadyReviewed == "BadRequestException: You have already gave the review for this product"
ErrNotPurchased == "BadRequestException: You have not purchased this product"

Id(prefix, n) == prefix \o ToString(n)

----------------------------------------------------------------------------
(* Pure helpers of the review handlers *)

RECURSIVE Sum(_)
Sum(s) == IF s = <<>> THEN 0 ELSE Head(s) + Sum(Tail(s))

SelectRatings(fb) == [i \in 1..Len(fb) |-> fb[i].rating]

TwoDigits(n) == IF n < 10 THEN "0" \o ToString(n) ELSE ToString(n)

\* (ratings.reduce((a, b) => a + b) / ratings.length).toFixed(2): the quotient
\* rounded to the nearest hundredth (the larger on a tie), printed with
\* exactly two decimals.
ToFixed2(sum, n) ==
    LET q == (200 * sum + n) \div (2 * n)
    IN  ToString(q \div 100) \o "." \o TwoDigits(q % 100)

\* product.feedbackDetails.find(value => value.customerId === user._id.toString())
HasReviewed_NeverEqual(product, user) == FALSE

HasReviewed(product, user) ==
    \E i \in 1..Len(product.feedbackDetails) :
        product.feedbackDetails[i].customerId = user._id

\* orderDB.findOne({customerId: user._id, 'orderedItems.productId': productId})
FindOrder_AnyProduct(user, productId) ==
    \E o \in orders : o.customerId = user._id

FindOrder(user, productId) ==
    \E o \in orders : o.customerId = user._id /\ productId \in o.orderedItems

\* lines 644-654: the average that addProductReview stores
AddAvgRating(product, rating) ==
    LET ratings == SelectRatings(product.feedbackDetails)
    IN  IF Len(ratings) > 0
        THEN ToFixed2(Sum(ratings), Len(ratings))
        ELSE ToString(rating)

\* lines 700-712: the average that removeProductReview stores
RemoveAvgRating(product, reviewId) ==
    LET ratings == SelectRatings(
                      SelectSeq(product.feedbackDetails,
                                LAMBDA c : c._id # reviewId))
    IN  IF Len(ratings) > 0
        THEN ToFixed2(Sum(ratings), Len(ratings))
        ELSE "0"

\* lines 656-661
ReviewDetails(id, rating, review, user) ==
    [_id |-> id, rating |-> rating, feedbackMsg |-> review,
     customerId |-> user._id, customerName |-> user.name]

\* findOneAndUpdate({_id}, {$set: {avgRating}, $push: {feedbackDetails}})
PushReview(store, productId, avgRating, reviewDetails) ==
    IF productId \in DOMAIN store
    THEN [store EXCEPT ![productId].avgRating = avgRating,
                       ![productId].feedbackDetails = Append(@, reviewDetails)]
    ELSE store

\* findOneAndUpdate({_id}, {$set: {avgRating}, $pull: {feedbackDetails: {_id}}})
PullReview(store, productId, avgRating, reviewId) ==
    IF productId \in DOMAIN store
    THEN [store EXCEPT ![productId].avgRating = avgRating,
                       ![productId].feedbackDetails =
                           SelectSeq(@, LAMBDA c : c._id # reviewId)]
    ELSE store

NewProduct(name, description, category, stripeProductId) ==
    [productName |-> name, description |-> description, category |-> category,
     stripeProductId |-> stripeProductId, image |-> Undefined,
     imageDetails |-> Undefined, avgRating |-> Undefined,
     skuDetails |-> <<>>, feedbackDetails |-> <<>>]

Call(op, args, error, trace, result) ==
    [op |-> op, args |-> args, error |-> error, trace |-> trace, result |-> result]

NoCall == Call("none", <<>>, "", <<>>, <<>>)

----------------------------------------------------------------------------
(* Review handlers, one request at a time *)

addProductReview(productId, rating, review, user, storeFails) ==
    LET args == [productId |-> productId, rating |-> rating, user |-> user]
        fail(e, t) == /\ last' = Call("addProductReview", args, e, t, <<>>)
                      /\ UNCHANGED <<products, nextId>>
    IN
    /\ UNCHANGED <<licenses, orders, stripeProducts, stripePrices, mediaAssets, reqs>>
    /\ IF productId \notin DOMAIN products
         THEN ~storeFails /\ fail(ErrProduct, <<"productDB.findOne">>)
       ELSE IF HasReviewed(products[productId], user)
         THEN ~storeFails /\ fail(ErrAlreadyReviewed, <<"productDB.findOne">>)
       ELSE IF ~FindOrder(user, productId)
         THEN ~storeFails
              /\ fail(ErrNotPurchased, <<"productDB.findOne", "orderDB.findOne">>)
       ELSE IF storeFails
         THEN fail(ErrUpstream, <<"productDB.findOne", "orderDB.findOne",
                                  "productDB.findOneAndUpdate">>)
       ELSE
         /\ nextId <= MaxId
         /\ products' = PushReview(products, productId,
                           AddAvgRating(products[productId], rating),
                           ReviewDetails(Id("f", nextId), rating, review, user))
         /\ nextId' = nextId + 1
         /\ last' = Call("addProductReview", args, "",
                         <<"productDB.findOne", "orderDB.findOne",
                           "productDB.findOneAndUpdate">>, <<>>)

removeProductReview(productId, reviewId, storeFails) ==
    LET args == [productId |-> productId, reviewId |-> reviewId]
        fail(e, t) == /\ last' = Call("removeProductReview", args, e, t, <<>>)
                      /\ UNCHANGED products
    IN
    /\ UNCHANGED <<licenses, orders, stripeProducts, stripePrices, mediaAssets,
                   nextId, reqs>>
    /\ IF productId \notin DOMAIN products
         THEN ~storeFails /\ fail(ErrProduct, <<"productDB.findOne">>)
       ELSE IF ~\E i \in 1..Len(products[productId].feedbackDetails) :
                   products[productId].feedbackDetails[i]._id = reviewId
         THEN ~storeFails /\ fail(ErrReview, <<"productDB.findOne">>)
       ELSE IF storeFails
         THEN fail(ErrUpstream, <<"productDB.findOne", "productDB.findOneAndUpdate">>)
       ELSE
         /\ products' = PullReview(products, productId,
                           RemoveAvgRating(products[productId], reviewId), reviewId)
         /\ last' = Call("removeProductReview", args, "",
                         <<"productDB.findOne", "productDB.findOneAndUpdate">>, <<>>)

ReviewIds == {Id("f", n) : n \in 1..MaxId}

\* The order store is only read by this service: it is fixed at start.
OrderStores ==
    SUBSET { [customerId |-> "C1", orderedItems |-> {"P1"}],
             [customerId |-> "C2", orderedItems |-> {"P1", "P2"}],
             [customerId |-> "C3", orderedItems |-> {"P2"}] }

InitReview ==
    /\ products = [p \in {"P1"} |-> NewProduct("name1", "desc1", "cat1", "prod_1")]
    /\ licenses = {}
    /\ orders \in OrderStores
    /\ stripeProducts = [i \in {"prod_1"} |-> [name |-> "name1", description |-> "desc1", images |-> <<>>]]
    /\ stripePrices = <<>>
    /\ mediaAssets = {}
    /\ nextId = 1
    /\ last = NoCall
    /\ reqs = <<>>

NextReview ==
    \/ \E p \in ProductIds, r \in Ratings, m \in Reviews, u \in Users, f \in BOOLEAN :
          addProductReview(p, r, m, u, f)
    \/ \E p \in ProductIds, id \in ReviewIds, f \in BOOLEAN :
          removeProductReview(p, id, f)

SpecReview == InitReview /\ [][NextReview]_vars

----------------------------------------------------------------------------
(* SKU and license handlers, one request at a time *)

Prices == {10, 20}
Lifetimes == {TRUE}
LicenseKeys == {"key1"}
SuppliedPriceIds == {"price_1"}    \* a stripePriceId the caller may send
SkuIds == {Id("s", n) : n \in 1..MaxSkuId}
LicenseIds == {Id("l", n) : n \in 1..MaxId}

\* ProductSkuDto: price, lifetime and an optional stripePriceId
ProductSkuDto ==
    [price : Prices, lifetime : Lifetimes,
     stripePriceId : {Undefined} \cup SuppliedPriceIds]

\* ProductSkuDtoArr.skuDetails
ProductSkuDtoArr == UNION {[1..n -> ProductSkuDto] : n \in 1..MaxBatch}

\* The collaborator calls a handler has completed when call number failAt
\* rejects (0: none rejects), and the calls it has issued.
Completed(steps, failAt) ==
    {steps[k] : k \in 1..(IF failAt = 0 THEN Len(steps) ELSE failAt - 1)}

Issued(steps, failAt) ==
    SubSeq(steps, 1, IF failAt = 0 THEN Len(steps) ELSE failAt)

IndexOf(steps, step) == CHOOSE k \in 1..Len(steps) : steps[k] = step

\* product.skuDetails.find(sku => sku._id == skuId)
FindSku_AnySku(product, skuId) == 1..Len(product.skuDetails)

FindSku(product, skuId) ==
    {i \in 1..Len(product.skuDetails) : product.skuDetails[i]._id = skuId}

\* stripeClient.prices.create({unit_amount: price * 100, currency, product, metadata})
StripePrice(price, lifetime, skuCode, productId, product) ==
    [unit_amount |-> price * 100, currency |-> "inr",
     product |-> product.stripeProductId, active |-> TRUE,
     metadata |-> [skuCode |-> skuCode, lifetime |-> lifetime,
                   productId |-> productId, price |-> price,
                   productName |-> product.productName,
                   productImage |-> product.image]]

\* lines 336-352, one round of the loop: the entry as it leaves the round,
\* given the id of the ledger price the round creates when the entry has none
SkuAfterLoop_CodeOnlyWithNewPrice(entry, newPriceId, skuCode) ==
    IF entry.stripePriceId = Undefined
    THEN [price |-> entry.price, lifetime |-> entry.lifetime,
          stripePriceId |-> newPriceId, skuCode |-> skuCode]
    ELSE [price |-> entry.price, lifetime |-> entry.lifetime,
          stripePriceId |-> entry.stripePriceId, skuCode |-> Undefined]

SkuAfterLoop(entry, newPriceId, skuCode) ==
    [price |-> entry.price, lifetime |-> entry.lifetime,
     stripePriceId |-> IF entry.stripePriceId = Undefined
                       THEN newPriceId ELSE entry.stripePriceId,
     skuCode |-> skuCode]

\* the embedded SKU document the store makes of a pushed entry
SkuDocument(id, sku) ==
    [_id |-> id, price |-> sku.price, lifetime |-> sku.lifetime,
     stripePriceId |-> sku.stripePriceId, skuCode |-> sku.skuCode]

\* line 334: Math.random().toString(36).substring(2, 5) + Date.now(), one
\* code per call, different from the code of every earlier call
NewSkuCode == Id("code", nextId)

\* lines 329-368.  failAt = i in 1..N: prices.create of entry i rejects;
\* failAt = N + 1: the final findOneAndUpdate rejects.
updateProductSku(productId, skuDetails, failAt) ==
    LET N == Len(skuDetails)
        skuCode == NewSkuCode
        args == [productId |-> productId, skuDetails |-> skuDetails]
        priceId(i) == Id("price_", nextId + i - 1)
        reached(i) == failAt = 0 \/ i < failAt
        created == {i \in 1..N : skuDetails[i].stripePriceId = Undefined /\ reached(i)}
        product == products[productId]
        batch == [i \in 1..N |->
                    SkuDocument(Id("s", nextId + i - 1),
                                SkuAfterLoop(skuDetails[i], priceId(i), skuCode))]
        creates == [i \in {k \in 1..N : skuDetails[k].stripePriceId = Undefined
                                        /\ (reached(k) \/ k = failAt)}
                      |-> "stripeClient.prices.create"]
        trace == <<"productDB.findOne">>
                   \o [k \in 1..Cardinality(DOMAIN creates) |-> "stripeClient.prices.create"]
                   \o (IF failAt = 0 \/ failAt = N + 1
                       THEN <<"productDB.findOneAndUpdate">> ELSE <<>>)
    IN
    /\ failAt <= N + 1
    /\ failAt \in 1..N => skuDetails[failAt].stripePriceId = Undefined
    /\ UNCHANGED <<licenses, orders, stripeProducts, mediaAssets, reqs>>
    /\ IF productId \notin DOMAIN products
         THEN /\ failAt = 0
              /\ last' = Call("updateProductSku", args, ErrProduct,
                              <<"productDB.findOne">>, <<>>)
              /\ UNCHANGED <<products, stripePrices, nextId>>
       ELSE
         /\ nextId + N - 1 <= MaxSkuId
         /\ stripePrices' =
               [id \in DOMAIN stripePrices \cup {priceId(i) : i \in created} |->
                  IF \E i \in created : priceId(i) = id
                  THEN LET i == CHOOSE j \in created : priceId(j) = id
                       IN  StripePrice(skuDetails[i].price, skuDetails[i].lifetime,
                                       skuCode, productId, product)
                  ELSE stripePrices[id]]
         /\ nextId' = nextId + N
         /\ IF failAt = 0
              THEN /\ products' = [products EXCEPT
                                     ![productId].skuDetails = @ \o batch]
                   /\ last' = Call("updateProductSku", args, "", trace, <<>>)
              ELSE /\ UNCHANGED products
                   /\ last' = Call("updateProductSku", args, ErrUpstream, trace, <<>>)

\* line 390: data.price !== sku.price
PriceChanged_Always(data, sku) == TRUE

PriceChanged(data, sku) == data.price # sku.price

\* lines 404-412 and the positional $set of lines 414-420: the SKU after the
\* patch; every own key of data overwrites the SKU's field
PatchSku(sku, data, minted, newPriceId) ==
    [sku EXCEPT !.price = data.price,
                !.lifetime = data.lifetime,
                !.stripePriceId = IF minted THEN newPriceId
                                  ELSE IF data.stripePriceId # Undefined
                                       THEN data.stripePriceId
                                       ELSE @]

\* lines 378-430.  failAt = 1: prices.create rejects; 2: findOneAndUpdate rejects.
updateProductSkuById(productId, skuId, data, failAt) ==
    LET args == [productId |-> productId, skuId |-> skuId, data |-> data]
        end(e, t) == last' = Call("updateProductSkuById", args, e, t, <<>>)
        newPriceId == Id("price_", nextId)
    IN
    /\ UNCHANGED <<licenses, orders, stripeProducts, mediaAssets, reqs>>
    /\ IF productId \notin DOMAIN products
         THEN /\ failAt = 0
              /\ end(ErrProduct, <<"productDB.findOne">>)
              /\ UNCHANGED <<products, stripePrices, nextId>>
       ELSE IF FindSku(products[productId], skuId) = {}
         THEN /\ failAt = 0
              /\ end(ErrSku, <<"productDB.findOne">>)
              /\ UNCHANGED <<products, stripePrices, nextId>>
       ELSE
         LET product == products[productId]
             i == CHOOSE k \in FindSku(product, skuId) : TRUE
             sku == product.skuDetails[i]
             minted == PriceChanged(data, sku)
             calls == <<"productDB.findOne">>
                        \o (IF minted THEN <<"stripeClient.prices.create">> ELSE <<>>)
        IN
         /\ failAt = 1 => minted
         /\ minted => nextId <= MaxSkuId
         /\ IF failAt = 1
              THEN /\ end(ErrUpstream, calls)
                   /\ UNCHANGED <<products, stripePrices, nextId>>
              ELSE
                /\ IF minted
                     THEN /\ stripePrices' =
                               [id \in DOMAIN stripePrices \cup {newPriceId} |->
                                  IF id = newPriceId
                                  THEN StripePrice(data.price, data.lifetime,
                                                   sku.skuCode, productId, product)
                                  ELSE stripePrices[id]]
                          /\ nextId' = nextId + 1
                     ELSE UNCHANGED <<stripePrices, nextId>>
                /\ IF failAt = 2
                     THEN /\ end(ErrUpstream, calls \o <<"productDB.findOneAndUpdate">>)
                          /\ UNCHANGED products
                     ELSE /\ end("", calls \o <<"productDB.findOneAndUpdate">>)
                          /\ products' = [products EXCEPT
                                 ![productId].skuDetails[i] =
                                     PatchSku(sku, data, minted, newPriceId)]

\* productDB.deleteSku(id, skuId): pulls the SKU from the product's skuDetails
deleteSku(store, id, skuId) ==
    IF id \in DOMAIN store
    THEN [store EXCEPT ![id].skuDetails = SelectSeq(@, LAMBDA k : k._id # skuId)]
    ELSE store

\* productDB.deleteAllLicense(undefined, skuId): deletes every License of the SKU
deleteAllLicense(store, skuId) == {l \in store : l.productSku # skuId}

\* productDB.createLicense(productId, skuId, licenseKey)
createLicense(store, id, productId, skuId, licenseKey) ==
    store \cup {[_id |-> id, product |-> productId, productSku |-> skuId,
                 licenseKey |-> licenseKey]}

\* productDB.removeLicense({_id: id})
removeLicense(store, id) == {l \in store : l._id # id}

\* stripeClient.prices.update(id, {active: false})
DeactivatePrice(ledger, id) ==
    IF id \in DOMAIN ledger THEN [ledger EXCEPT ![id].active = FALSE] ELSE ledger

\* lines 446-453: the writes of deleteProductSkuById, in the order of the code
DeleteSkuSteps_LicensesFirst ==
    <<"productDB.deleteAllLicense", "productDB.deleteSku", "stripeClient.prices.update">>

DeleteSkuSteps ==
    <<"stripeClient.prices.update", "productDB.deleteSku", "productDB.deleteAllLicense">>

\* lines 440-466.  failAt = k: write number k of DeleteSkuSteps rejects.  The
\* ledger also rejects prices.update for a price id it does not hold.
deleteProductSkuById(id, skuId, failAt) ==
    LET args == [productId |-> id, skuId |-> skuId]
        end(e, t) == last' = Call("deleteProductSkuById", args, e, t,
                                  [id |-> id, skuId |-> skuId])
    IN
    /\ UNCHANGED <<orders, stripeProducts, mediaAssets, nextId, reqs>>
    /\ IF id \notin DOMAIN products \/ FindSku(products[id], skuId) = {}
         THEN \* productDetails.skuDetails of null, or skuDetails.stripePriceId of undefined
              /\ failAt = 0
              /\ end(ErrType, <<"productDB.findOne">>)
              /\ UNCHANGED <<products, licenses, stripePrices>>
       ELSE
         LET sku == products[id].skuDetails[CHOOSE k \in FindSku(products[id], skuId) : TRUE]
             unknown == sku.stripePriceId \notin DOMAIN stripePrices
             at == IndexOf(DeleteSkuSteps, "stripeClient.prices.update")
             stop == IF unknown /\ (failAt = 0 \/ failAt > at) THEN at ELSE failAt
             done == Completed(DeleteSkuSteps, stop)
         IN
         /\ stripePrices' = IF "stripeClient.prices.update" \in done
                            THEN DeactivatePrice(stripePrices, sku.stripePriceId)
                            ELSE stripePrices
         /\ products' = IF "productDB.deleteSku" \in done
                        THEN deleteSku(products, id, skuId) ELSE products
         /\ licenses' = IF "productDB.deleteAllLicense" \in done
                        THEN deleteAllLicense(licenses, skuId) ELSE licenses
         /\ end(IF stop = 0 THEN "" ELSE ErrUpstream,
                <<"productDB.findOne">> \o Issued(DeleteSkuSteps, stop))

\* lines 477-503
addProductSkuLicense(productId, skuId, licenseKey, storeFails) ==
    LET args == [productId |-> productId, skuId |-> skuId, licenseKey |-> licenseKey]
        end(e, t) == last' = Call("addProductSkuLicense", args, e, t, <<>>)
    IN
    /\ UNCHANGED <<products, orders, stripeProducts, stripePrices, mediaAssets, reqs>>
    /\ IF productId \notin DOMAIN products
         THEN /\ ~storeFails
              /\ end(ErrProduct, <<"productDB.findOne">>)
              /\ UNCHANGED <<licenses, nextId>>
       ELSE IF FindSku(products[productId], skuId) = {}
         THEN /\ ~storeFails
              /\ end(ErrSku, <<"productDB.findOne">>)
              /\ UNCHANGED <<licenses, nextId>>
       ELSE IF storeFails
         THEN /\ end(ErrUpstream, <<"productDB.findOne", "productDB.createLicense">>)
              /\ UNCHANGED <<licenses, nextId>>
       ELSE
         /\ nextId <= MaxId
         /\ licenses' = createLicense(licenses, Id("l", nextId), productId, skuId, licenseKey)
         /\ nextId' = nextId + 1
         /\ end("", <<"productDB.findOne", "productDB.createLicense">>)

\* lines 512-523
removeProductSkuLicense(id, storeFails) ==
    /\ UNCHANGED <<products, orders, stripeProducts, stripePrices, mediaAssets,
                   nextId, reqs>>
    /\ licenses' = IF storeFails THEN licenses ELSE removeLicense(licenses, id)
    /\ last' = Call("removeProductSkuLicense", [id |-> id],
                    IF storeFails THEN ErrUpstream ELSE "",
                    <<"productDB.removeLicense">>, <<>>)

\* productDB.findLicense({product: productId, productSku: skuId})
findLicense(store, productId, skuId) ==
    {l \in store : l.product = productId /\ l.productSku = skuId}

\* lines 533-558
getProductSkuLicenses(productId, skuId, storeFails) ==
    LET args == [productId |-> productId, skuId |-> skuId]
        end(e, t, r) == last' = Call("getProductSkuLicenses", args, e, t, r)
    IN
    /\ UNCHANGED <<products, licenses, orders, stripeProducts, stripePrices,
                   mediaAssets, nextId, reqs>>
    /\ IF productId \notin DOMAIN products
         THEN /\ ~storeFails
              /\ end(ErrProduct, <<"productDB.findOne">>, <<>>)
       ELSE IF FindSku(products[productId], skuId) = {}
         THEN /\ ~storeFails
              /\ end(ErrSku, <<"productDB.findOne">>, <<>>)
       ELSE IF storeFails
         THEN end(ErrUpstream, <<"productDB.findOne", "productDB.findLicense">>, <<>>)
       ELSE end("", <<"productDB.findOne", "productDB.findLicense">>,
                findLicense(licenses, productId, skuId))

NewLicenseKeys == {"key2"}

\* productDB.updateLicense({_id: licenseKeyId}, {licenseKey: licenseKey})
updateLicense(store, licenseKeyId, licenseKey) ==
    {IF l._id = licenseKeyId THEN [l EXCEPT !.licenseKey = licenseKey] ELSE l :
        l \in store}

\* lines 570-600
updateProductSkuLicense(productId, skuId, licenseKeyId, licenseKey, storeFails) ==
    LET args == [productId |-> productId, skuId |-> skuId,
                 licenseKeyId |-> licenseKeyId, licenseKey |-> licenseKey]
        end(e, t) == last' = Call("updateProductSkuLicense", args, e, t, <<>>)
    IN
    /\ UNCHANGED <<products, orders, stripeProducts, stripePrices, mediaAssets,
                   nextId, reqs>>
    /\ IF productId \notin DOMAIN products
         THEN /\ ~storeFails
              /\ end(ErrProduct, <<"productDB.findOne">>)
              /\ UNCHANGED licenses
       ELSE IF FindSku(products[productId], skuId) = {}
         THEN /\ ~storeFails
              /\ end(ErrSku, <<"productDB.findOne">>)
              /\ UNCHANGED licenses
       ELSE IF storeFails
         THEN /\ end(ErrUpstream, <<"productDB.findOne", "productDB.updateLicense">>)
              /\ UNCHANGED licenses
       ELSE
         /\ licenses' = updateLicense(licenses, licenseKeyId, licenseKey)
         /\ end("", <<"productDB.findOne", "productDB.updateLicense">>)

InitSku ==
    /\ products = [p \in {"P1"} |-> NewProduct("name1", "desc1", "cat1", "prod_1")]
    /\ licenses = {}
    /\ orders = {}
    /\ stripeProducts = [i \in {"prod_1"} |-> [name |-> "name1", description |-> "desc1", images |-> <<>>]]
    /\ stripePrices = <<>>
    /\ mediaAssets = {}
    /\ nextId = 1
    /\ last = NoCall
    /\ reqs = <<>>

\* Batches of SKUs, of every shape.
NextSkuBatch ==
    \E p \in ProductIds, d \in ProductSkuDtoArr, f \in 0..(MaxBatch + 1) :
        updateProductSku(p, d, f)

SpecSkuBatch == InitSku /\ [][NextSkuBatch]_vars

\* SKUs that come in batches of one price, and are then patched or deleted.
OnePriceSkuDtoArr == {d \in ProductSkuDtoArr : \A i \in 1..Len(d) : d[i].price = 10}

NextSku ==
    \/ \E p \in ProductIds, d \in OnePriceSkuDtoArr, f \in 0..(MaxBatch + 1) :
          updateProductSku(p, d, f)
    \/ \E p \in ProductIds, k \in SkuIds, d \in ProductSkuDto, f \in 0..2 :
          updateProductSkuById(p, k, d, f)

SpecSku == InitSku /\ [][NextSku]_vars

NextSkuDelete ==
    \/ \E p \in ProductIds, d \in OnePriceSkuDtoArr, f \in 0..(MaxBatch + 1) :
          updateProductSku(p, d, f)
    \/ \E p \in ProductIds, k \in SkuIds, f \in 0..Len(DeleteSkuSteps) :
          deleteProductSkuById(p, k, f)
    \/ \E p \in ProductIds, k \in SkuIds, key \in LicenseKeys, f \in BOOLEAN :
          addProductSkuLicense(p, k, key, f)
    \/ \E l \in LicenseIds, f \in BOOLEAN : removeProductSkuLicense(l, f)

SpecSkuDelete == InitSku /\ [][NextSkuDelete]_vars

\* Every handler that takes a productId and a skuId, over SKUs that come
\* one at a time.
OneSkuDtoArr == {d \in OnePriceSkuDtoArr : Len(d) = 1 /\ d[1].stripePriceId = Undefined}

NextSkuGuard ==
    \/ \E p \in ProductIds, d \in OneSkuDtoArr : updateProductSku(p, d, 0)
    \/ \E p \in ProductIds, k \in SkuIds, d \in OneSkuDtoArr, f \in 0..2 :
          updateProductSkuById(p, k, d[1], f)
    \/ \E p \in ProductIds, k \in SkuIds, f \in 0..Len(DeleteSkuSteps) :
          deleteProductSkuById(p, k, f)
    \/ \E p \in ProductIds, k \in SkuIds, key \in LicenseKeys, f \in BOOLEAN :
          addProductSkuLicense(p, k, key, f)
    \/ \E p \in ProductIds, k \in SkuIds, f \in BOOLEAN :
          getProductSkuLicenses(p, k, f)
    \/ \E p \in ProductIds, k \in SkuIds, l \in LicenseIds,
          key \in NewLicenseKeys, f \in BOOLEAN :
          updateProductSkuLicense(p, k, l, key, f)

SpecSkuGuard == InitSku /\ [][NextSkuGuard]_vars


----------------------------------------------------------------------------
(* Product handlers, one request at a time *)

Categories == {"cat1", "cat2"}
SuppliedProductIds == {"prod_ext"}   \* a stripeProductId the caller may send
CreatedIds == {Id("P", n) : n \in 1..MaxProductId}

\* CreateProductDto
CreateProductDto ==
    [productName : {"name1"}, description : {"desc1"}, category : Categories,
     stripeProductId : {Undefined} \cup SuppliedProductIds]

\* the calls a handler has issued, against the order of the code
IsPrefix(t, expected) ==
    Len(t) <= Len(expected) /\ SubSeq(expected, 1, Len(t)) = t

Has(t, step) == \E k \in 1..Len(t) : t[k] = step

\* the calls of a handler that a condition of the code leaves out
Without(steps, skipped) == SelectSeq(steps, LAMBDA x : x \notin skipped)

Before(steps, a, b) ==
    \E i, j \in 1..Len(steps) : i < j /\ steps[i] = a /\ steps[j] = b

\* line 98: !createProductDto.stripeProductId
NeedsLedgerProduct(dto) == dto.stripeProductId = Undefined

\* lines 98-106: the writes of createProduct, in the order of the code
CreateProductSteps_LocalFirst ==
    <<"productDB.create", "stripeClient.products.create">>

CreateProductSteps ==
    <<"stripeClient.products.create", "productDB.create">>

\* lines 93-115.  failAt = k: write number k of the call rejects.
createProduct(createProductDto, failAt) ==
    LET needed == NeedsLedgerProduct(createProductDto)
        steps == IF needed THEN CreateProductSteps
                 ELSE Without(CreateProductSteps, {"stripeClient.products.create"})
        done == Completed(steps, failAt)
        ledgerId == Id("prod_", nextId)
        \* line 103 runs before line 106 reads the dto
        stored == IF needed /\ Before(steps, "stripeClient.products.create",
                                             "productDB.create")
                  THEN ledgerId ELSE createProductDto.stripeProductId
    IN
    /\ nextId <= MaxProductId
    /\ failAt <= Len(steps)
    /\ UNCHANGED <<licenses, orders, stripePrices, mediaAssets, reqs>>
    /\ stripeProducts' =
          IF "stripeClient.products.create" \in done
          THEN [i \in DOMAIN stripeProducts \cup {ledgerId} |->
                  IF i = ledgerId
                  THEN [name |-> createProductDto.productName,
                        description |-> createProductDto.description,
                        images |-> <<>>]
                  ELSE stripeProducts[i]]
          ELSE stripeProducts
    /\ products' =
          IF "productDB.create" \in done
          THEN [i \in DOMAIN products \cup {Id("P", nextId)} |->
                  IF i = Id("P", nextId)
                  THEN NewProduct(createProductDto.productName,
                                  createProductDto.description,
                                  createProductDto.category, stored)
                  ELSE products[i]]
          ELSE products
    /\ nextId' = IF done = {} THEN nextId ELSE nextId + 1
    /\ last' = Call("createProduct", createProductDto,
                    IF failAt = 0 THEN "" ELSE ErrUpstream,
                    Issued(steps, failAt),
                    IF failAt = 0 THEN Id("P", nextId) ELSE Undefined)

\* resOfCloudinary.secure_url of the asset with this public_id
SecureUrl(publicId) == "https://" \o publicId

\* lines 281-309: the calls of uploadProductImage, in the order of the code
UploadImageSteps_UploadFirst ==
    <<"cloudinary.uploader.upload", "cloudinary.uploader.destroy", "unlinkSync",
      "productDB.findOneAndUpdate", "stripeClient.products.update">>

UploadImageSteps ==
    <<"cloudinary.uploader.destroy", "cloudinary.uploader.upload", "unlinkSync",
      "productDB.findOneAndUpdate", "stripeClient.products.update">>

\* lines 274-319.  failAt = k: call number k of the handler (after findOne)
\* rejects or throws.  The ledger also rejects products.update for a product
\* id it does not hold.  The temporary file is not part of the state: its
\* removal shows in the trace.
uploadProductImage(id, failAt) ==
    LET args == [id |-> id]
        end(e, t) == last' = Call("uploadProductImage", args, e, t, <<>>)
    IN
    /\ UNCHANGED <<licenses, orders, stripePrices, reqs>>
    /\ IF id \notin DOMAIN products
         THEN /\ failAt = 0
              /\ end(ErrProduct, <<"productDB.findOne">>)
              /\ UNCHANGED <<products, stripeProducts, mediaAssets, nextId>>
       ELSE
         LET product == products[id]
             old == product.imageDetails
             steps == IF old # Undefined THEN UploadImageSteps
                      ELSE Without(UploadImageSteps, {"cloudinary.uploader.destroy"})
             publicId == Id("img", nextId)
             unknown == product.stripeProductId \notin DOMAIN stripeProducts
             at == IndexOf(steps, "stripeClient.products.update")
             stop == IF unknown /\ (failAt = 0 \/ failAt > at) THEN at ELSE failAt
             done == Completed(steps, stop)
             uploaded == "cloudinary.uploader.upload" \in done
         IN
         /\ nextId <= MaxProductId
         /\ failAt <= Len(steps)
         /\ mediaAssets' =
               (IF "cloudinary.uploader.destroy" \in done
                THEN mediaAssets \ {old} ELSE mediaAssets)
               \cup (IF uploaded THEN {publicId} ELSE {})
         /\ nextId' = IF uploaded THEN nextId + 1 ELSE nextId
         /\ products' =
               IF "productDB.findOneAndUpdate" \in done
               THEN [products EXCEPT ![id].imageDetails = publicId,
                                     ![id].image = SecureUrl(publicId)]
               ELSE products
         /\ stripeProducts' =
               IF "stripeClient.products.update" \in done
               THEN [stripeProducts EXCEPT
                       ![product.stripeProductId].images = <<SecureUrl(publicId)>>]
               ELSE stripeProducts
         /\ end(IF stop = 0 THEN "" ELSE ErrUpstream,
                <<"productDB.findOne">> \o Issued(steps, stop))

\* qs2m(query).options: skip and limit, each present or not
QueryOptions ==
    UNION {[D -> 0..MaxPage] : D \in SUBSET {"skip", "limit"}}

\* qs2m(query).criteria: no filter, or a category
QueryCriteria == {Undefined} \cup Categories

Matching(criteria) ==
    {i \in DOMAIN products : criteria = Undefined \/ products[i].category = criteria}

\* productDB.find(criteria, options): the count of the matching products and
\* the products
find(criteria, options) ==
    [totalProductCount |-> Cardinality(Matching(criteria)),
     products |-> Matching(criteria)]

\* productDB.findProductWithGroupBy(): the products grouped by category
findProductWithGroupBy ==
    [c \in {products[i].category : i \in DOMAIN products} |->
        {i \in DOMAIN products : products[i].category = c}]

DefaultLimit == 10

\* option || fallback
Or(options, key, fallback) ==
    IF key \in DOMAIN options /\ options[key] # 0 THEN options[key] ELSE fallback

\* Math.ceil(total / limit), limit > 0
Ceil_Floor(total, limit) == total \div limit

Ceil(total, limit) == (total + limit - 1) \div limit

\* lines 153-161
Metadata(options, totalProductCount) ==
    [skip |-> Or(options, "skip", 0),
     limit |-> Or(options, "limit", DefaultLimit),
     total |-> totalProductCount,
     pages |-> IF Or(options, "limit", 0) # 0
               THEN Ceil(totalProductCount, options["limit"])
               ELSE 1,
     links |-> <<"/", totalProductCount>>]

\* lines 124-169.  query.homepage is deleted before qs2m reads the query.
findAllProducts(homepage, criteria, options, storeFails) ==
    LET args == [homepage |-> homepage, criteria |-> criteria, options |-> options]
        call == IF homepage THEN <<"productDB.findProductWithGroupBy">>
                ELSE <<"productDB.find">>
        found == find(criteria, options)
    IN
    /\ UNCHANGED <<products, licenses, orders, stripeProducts, stripePrices,
                   mediaAssets, nextId, reqs>>
    /\ last' =
          IF storeFails THEN Call("findAllProducts", args, ErrUpstream, call, <<>>)
          ELSE IF homepage
            THEN Call("findAllProducts", args, "", call, findProductWithGroupBy)
          ELSE Call("findAllProducts", args, "", call,
                    [metadata |-> Metadata(options, found.totalProductCount),
                     products |-> found.products])

InitProduct ==
    /\ products = <<>>
    /\ licenses = {}
    /\ orders = {}
    /\ stripeProducts = <<>>
    /\ stripePrices = <<>>
    /\ mediaAssets = {}
    /\ nextId = 1
    /\ last = NoCall
    /\ reqs = <<>>

NextProduct ==
    \/ \E d \in CreateProductDto, f \in 0..Len(CreateProductSteps) : createProduct(d, f)
    \/ \E i \in CreatedIds, f \in 0..Len(UploadImageSteps) : uploadProductImage(i, f)

SpecProduct == InitProduct /\ [][NextProduct]_vars

\* Queries over a store that fills with products of the two categories.
PlainProductDto == {d \in CreateProductDto : d.stripeProductId = Undefined}

NextFind ==
    \/ \E d \in PlainProductDto : createProduct(d, 0)
    \/ \E h \in BOOLEAN, c \in QueryCriteria, o \in QueryOptions, f \in BOOLEAN :
          findAllProducts(h, c, o, f)

SpecFind == InitProduct /\ [][NextFind]_vars

----------------------------------------------------------------------------
(* Product update and removal, one request at a time *)

\* updateProductDto: the new name, description and category, and an
\* optional stripeProductId
UpdateProductDto ==
    [productName : {"name2"}, description : {"desc2"}, category : {"cat2"},
     stripeProductId : {Undefined} \cup SuppliedProductIds]

\* line 223: !updateProductDto.stripeProductId
SyncsLedger_Always(dto) == TRUE

SyncsLedger(dto) == dto.stripeProductId = Undefined

\* productDB.findOneAndUpdate({_id: id}, updateProductDto): every field the
\* dto carries overwrites the product's field
PatchProduct(product, dto) ==
    [product EXCEPT !.productName = dto.productName,
                    !.description = dto.description,
                    !.category = dto.category,
                    !.stripeProductId = IF dto.stripeProductId # Undefined
                                        THEN dto.stripeProductId ELSE @]

\* lines 220-228: the writes of updateProduct, in the order of the code
UpdateProductSteps ==
    <<"productDB.findOneAndUpdate", "stripeClient.products.update">>

\* lines 212-239.  failAt = k: write number k of the call rejects.  The ledger
\* also rejects products.update for a product id it does not hold.
updateProduct(id, updateProductDto, failAt) ==
    LET args == [id |-> id, updateProductDto |-> updateProductDto]
        end(e, t) == last' = Call("updateProduct", args, e, t, <<>>)
    IN
    /\ UNCHANGED <<licenses, orders, stripePrices, mediaAssets, nextId, reqs>>
    /\ IF id \notin DOMAIN products
         THEN /\ failAt = 0
              /\ end(ErrProduct, <<"productDB.findOne">>)
              /\ UNCHANGED <<products, stripeProducts>>
       ELSE
         LET productExist == products[id]
             steps == IF SyncsLedger(updateProductDto) THEN UpdateProductSteps
                      ELSE Without(UpdateProductSteps, {"stripeClient.products.update"})
             unknown == /\ Has(steps, "stripeClient.products.update")
                        /\ productExist.stripeProductId \notin DOMAIN stripeProducts
             at == IndexOf(steps, "stripeClient.products.update")
             stop == IF unknown /\ (failAt = 0 \/ failAt > at) THEN at ELSE failAt
             done == Completed(steps, stop)
         IN
         /\ failAt <= Len(steps)
         /\ products' =
               IF "productDB.findOneAndUpdate" \in done
               THEN [products EXCEPT ![id] = PatchProduct(@, updateProductDto)]
               ELSE products
         /\ stripeProducts' =
               IF "stripeClient.products.update" \in done
               THEN [stripeProducts EXCEPT
                       ![productExist.stripeProductId].name =
                           updateProductDto.productName,
                       ![productExist.stripeProductId].description =
                           updateProductDto.description]
               ELSE stripeProducts
         /\ end(IF stop = 0 THEN "" ELSE ErrUpstream,
                <<"productDB.findOne">> \o Issued(steps, stop))

\* productDB.findOneAndDelete({_id: id}) and stripeClient.products.del(id)
Remove(store, id) == [i \in DOMAIN store \ {id} |-> store[i]]

\* lines 253-254: the writes of removeProduct, in the order of the code
RemoveProductSteps_LedgerFirst ==
    <<"stripeClient.products.del", "productDB.findOneAndDelete">>

RemoveProductSteps ==
    <<"productDB.findOneAndDelete", "stripeClient.products.del">>

\* lines 248-264.  failAt = k: write number k of the call rejects.  The ledger
\* also rejects products.del for a product id it does not hold.
removeProduct(id, failAt) ==
    LET args == [id |-> id]
        end(e, t) == last' = Call("removeProduct", args, e, t, <<>>)
    IN
    /\ UNCHANGED <<licenses, orders, stripePrices, mediaAssets, nextId, reqs>>
    /\ IF id \notin DOMAIN products
         THEN /\ failAt = 0
              /\ end(ErrProduct, <<"productDB.findOne">>)
              /\ UNCHANGED <<products, stripeProducts>>
       ELSE
         LET productExist == products[id]
             unknown == productExist.stripeProductId \notin DOMAIN stripeProducts
             at == IndexOf(RemoveProductSteps, "stripeClient.products.del")
             stop == IF unknown /\ (failAt = 0 \/ failAt > at) THEN at ELSE failAt
             done == Completed(RemoveProductSteps, stop)
         IN
         /\ failAt <= Len(RemoveProductSteps)
         /\ products' = IF "productDB.findOneAndDelete" \in done
                        THEN Remove(products, id) ELSE products
         /\ stripeProducts' = IF "stripeClient.products.del" \in done
                              THEN Remove(stripeProducts, productExist.stripeProductId)
                              ELSE stripeProducts
         /\ end(IF stop = 0 THEN "" ELSE ErrUpstream,
                <<"productDB.findOne">> \o Issued(RemoveProductSteps, stop))

\* Products of one category that are created, patched and removed.
OneCategoryProductDto == {d \in CreateProductDto : d.category = "cat1"}

NextProductWrite ==
    \/ \E d \in OneCategoryProductDto, f \in 0..Len(CreateProductSteps) : createProduct(d, f)
    \/ \E i \in ProductIds, d \in UpdateProductDto, f \in 0..Len(UpdateProductSteps) :
          updateProduct(i, d, f)
    \/ \E i \in ProductIds, f \in 0..Len(RemoveProductSteps) : removeProduct(i, f)

SpecProductWrite == InitProduct /\ [][NextProductWrite]_vars

\* Products that get SKUs and licenses and are removed.
NextLicense ==
    \/ \E d \in OneCategoryProductDto \cap PlainProductDto,
          f \in 0..Len(CreateProductSteps) : createProduct(d, f)
    \/ \E p \in ProductIds, f \in 0..Len(RemoveProductSteps) : removeProduct(p, f)
    \/ \E p \in ProductIds, d \in OnePriceSkuDtoArr, f \in 0..(MaxBatch + 1) :
          updateProductSku(p, d, f)
    \/ \E p \in ProductIds, k \in SkuIds, f \in 0..Len(DeleteSkuSteps) :
          deleteProductSkuById(p, k, f)
    \/ \E p \in ProductIds, k \in SkuIds, key \in LicenseKeys, f \in BOOLEAN :
          addProductSkuLicense(p, k, key, f)
    \/ \E l \in LicenseIds, f \in BOOLEAN : removeProductSkuLicense(l, f)

SpecLicense == InitProduct /\ [][NextLicense]_vars

----------------------------------------------------------------------------
(* addProductReview, several requests at a time.  A request runs from one   *)
(* await to the next without interruption; between two awaits the other     *)
(* requests may run.  `reqs[r]` holds the request's arguments, its place in *)
(* the handler (pc) and the product document its findOne returned.          *)

Requests == 1..MaxReqs

Idle == [pc |-> "idle"]

\* a request arrives (line 612)
arrive(r, productId, rating, review, user) ==
    /\ reqs[r].pc = "idle"
    /\ reqs' = [reqs EXCEPT ![r] =
                  [pc |-> "findOne", productId |-> productId, rating |-> rating,
                   review |-> review, user |-> user, product |-> Undefined,
                   error |-> ""]]
    /\ UNCHANGED <<products, licenses, orders, stripeProducts, stripePrices,
                   mediaAssets, nextId, last>>

\* lines 619-622: await productDB.findOne
readProduct(r) ==
    /\ reqs[r].pc = "findOne"
    /\ reqs' = [reqs EXCEPT ![r] =
                  IF reqs[r].productId \in DOMAIN products
                  THEN [@ EXCEPT !.pc = "check", !.product = products[reqs[r].productId]]
                  ELSE [@ EXCEPT !.pc = "thrown", !.error = ErrProduct]]
    /\ UNCHANGED <<products, licenses, orders, stripeProducts, stripePrices,
                   mediaAssets, nextId, last>>

\* lines 624-633: the duplicate check, on the document that was read
checkDuplicate(r) ==
    /\ reqs[r].pc = "check"
    /\ reqs' = [reqs EXCEPT ![r] =
                  IF HasReviewed(reqs[r].product, reqs[r].user)
                  THEN [@ EXCEPT !.pc = "thrown", !.error = ErrAlreadyReviewed]
                  ELSE [@ EXCEPT !.pc = "orderFindOne"]]
    /\ UNCHANGED <<products, licenses, orders, stripeProducts, stripePrices,
                   mediaAssets, nextId, last>>

\* lines 635-642: await orderDB.findOne
readOrder(r) ==
    /\ reqs[r].pc = "orderFindOne"
    /\ reqs' = [reqs EXCEPT ![r] =
                  IF FindOrder(reqs[r].user, reqs[r].productId)
                  THEN [@ EXCEPT !.pc = "findOneAndUpdate"]
                  ELSE [@ EXCEPT !.pc = "thrown", !.error = ErrNotPurchased]]
    /\ UNCHANGED <<products, licenses, orders, stripeProducts, stripePrices,
                   mediaAssets, nextId, last>>

\* lines 644-672: the average of the ratings that were read, and the one
\* combined $set + $push, which the store applies to the document it holds
pushReview(r) ==
    /\ reqs[r].pc = "findOneAndUpdate"
    /\ products' = PushReview(products, reqs[r].productId,
                      AddAvgRating(reqs[r].product, reqs[r].rating),
                      ReviewDetails(Id("f", nextId), reqs[r].rating,
                                    reqs[r].review, reqs[r].user))
    /\ nextId' = nextId + 1
    /\ reqs' = [reqs EXCEPT ![r].pc = "returned"]
    /\ UNCHANGED <<licenses, orders, stripeProducts, stripePrices, mediaAssets, last>>

InitConc ==
    /\ products = [p \in {"P1"} |-> NewProduct("name1", "desc1", "cat1", "prod_1")]
    /\ licenses = {}
    /\ orders = UNION OrderStores
    /\ stripeProducts = [i \in {"prod_1"} |-> [name |-> "name1", description |-> "desc1", images |-> <<>>]]
    /\ stripePrices = <<>>
    /\ mediaAssets = {}
    /\ nextId = 1
    /\ last = NoCall
    /\ reqs = [r \in Requests |-> Idle]

NextConc ==
    \E r \in Requests :
        \/ \E p \in ProductIds, n \in Ratings, m \in Reviews, u \in Users :
              arrive(r, p, n, m, u)
        \/ readProduct(r)
        \/ checkDuplicate(r)
        \/ readOrder(r)
        \/ pushReview(r)

SpecConc == InitConc /\ [][NextConc]_vars

----------------------------------------------------------------------------
(* Claims about the review handlers (one request at a time) *)

LastProduct == products[last.args.productId]

CustomerIds(fb) == {fb[i].customerId : i \in 1..Len(fb)}

MeanString(fb) ==
    IF fb = <<>> THEN "0"
    ELSE ToFixed2(Sum(SelectRatings(fb)), Len(fb))

HasOrder(customerId, productId) ==
    \E o \in orders : o.customerId = customerId /\ productId \in o.orderedItems

\* C1: after every successful addProductReview or removeProductReview the
\* stored avgRating of the product is the mean of the ratings of all the
\* Feedback entries then on the product, as a 2-decimal string, or "0" when
\* the product has no Feedback.
C1_AvgRatingIsMean ==
    (last.op \in {"addProductReview", "removeProductReview"} /\ last.error = "")
        => LastProduct.avgRating = MeanString(LastProduct.feedbackDetails)

\* C2: addProductReview by a customer who already has a Feedback entry on the
\* product ends with the duplicate-review BadRequest and leaves the product
\* store unchanged; and no product ever holds two Feedback entries with the
\* same customerId.
C2_NoDuplicate ==
    \A p \in DOMAIN products :
        Cardinality(CustomerIds(products[p].feedbackDetails))
            = Len(products[p].feedbackDetails)

C2_DuplicateReviewRejected ==
    /\ [][ (/\ last'.op = "addProductReview"
            /\ last'.args.productId \in DOMAIN products
            /\ last'.args.user._id \in
                   CustomerIds(products[last'.args.productId].feedbackDetails))
           => (last'.error = ErrAlreadyReviewed /\ products' = products) ]_vars
    /\ []C2_NoDuplicate

C2_Witness ==
    /\ last.op = "addProductReview"
    /\ last.error = ErrAlreadyReviewed
    /\ last.args.user._id \in CustomerIds(LastProduct.feedbackDetails)

\* C3: addProductReview by a customer with no order containing the product
\* fails and writes nothing, with the not-purchased BadRequest when the
\* product exists (an absent product fails earlier, as not found); and every
\* Feedback entry a step inserts has an order linking its customerId to the
\* product.
C3_PurchaseGate ==
    [][ last'.op = "addProductReview" =>
          /\ ~HasOrder(last'.args.user._id, last'.args.productId) =>
                /\ last'.error # ""
                /\ products' = products
                /\ last'.args.productId \in DOMAIN products
                      => last'.error = ErrNotPurchased
          /\ \A p \in DOMAIN products' :
                \A i \in 1..Len(products'[p].feedbackDetails) :
                    LET e == products'[p].feedbackDetails[i]
                    IN  (p \in DOMAIN products /\
                         ~\E j \in 1..Len(products[p].feedbackDetails) :
                              products[p].feedbackDetails[j] = e)
                          => HasOrder(e.customerId, p) ]_vars

C3_Witness ==
    /\ last.op = "addProductReview"
    /\ last.error = ErrNotPurchased
    /\ ~HasOrder(last.args.user._id, last.args.productId)
    /\ \E u \in Users : HasReviewed(LastProduct, u)

----------------------------------------------------------------------------
(* Claims about the SKU handlers *)

NewPriceIds == DOMAIN stripePrices' \ DOMAIN stripePrices

OldPricesKept == \A id \in DOMAIN stripePrices :
                     id \in DOMAIN stripePrices' /\ stripePrices'[id] = stripePrices[id]

SkuOf(store, productId, skuId) ==
    store[productId].skuDetails[CHOOSE k \in FindSku(store[productId], skuId) : TRUE]

\* C4: a successful deleteProductSkuById leaves the SKU's ledger price in the
\* ledger and inactive, the SKU out of the product's skuDetails and no License
\* of that SKU in the license store; the writes are issued in the order
\* deactivate price, remove SKU, delete licenses, so whatever the outcome a
\* removed SKU has its price deactivated and deleted licenses have their SKU
\* removed.
C4_DeleteSku ==
    [][ (/\ last'.op = "deleteProductSkuById"
         /\ last'.args.productId \in DOMAIN products
         /\ FindSku(products[last'.args.productId], last'.args.skuId) # {})
        =>
        LET id == last'.args.productId
            skuId == last'.args.skuId
            priceId == SkuOf(products, id, skuId).stripePriceId
            inactive == /\ priceId \in DOMAIN stripePrices'
                        /\ ~stripePrices'[priceId].active
            removed == FindSku(products'[id], skuId) = {}
            noLicense == \A l \in licenses' : l.productSku # skuId
        IN  /\ DOMAIN stripePrices' = DOMAIN stripePrices
            /\ last'.error = "" =>
                  /\ inactive /\ removed /\ noLicense
                  /\ last'.trace = <<"productDB.findOne", "stripeClient.prices.update",
                                     "productDB.deleteSku", "productDB.deleteAllLicense">>
            /\ removed => inactive
            /\ licenses' # licenses => removed ]_vars

C4_Witness ==
    /\ last.op = "deleteProductSkuById"
    /\ last.error = ""
    /\ FindSku(LastProduct, last.args.skuId) = {}
    /\ \E id \in DOMAIN stripePrices : ~stripePrices[id].active
    /\ \A l \in licenses : l.productSku # last.args.skuId

\* C5: a successful updateProductSku appends the batch; all its entries get
\* one and the same skuCode, whether or not they came with a stripePriceId; a
\* ledger price of amount price * 100 is created exactly for the entries that
\* came without one, and an entry that came with one keeps it.
C5_BatchSkuCode ==
    [][ (last'.op = "updateProductSku" /\ last'.error = "")
        =>
        LET p == last'.args.productId
            d == last'.args.skuDetails
            old == products[p].skuDetails
            new == products'[p].skuDetails
            added(i) == new[Len(old) + i]
            lacking == {i \in 1..Len(d) : d[i].stripePriceId = Undefined}
        IN  /\ Len(new) = Len(old) + Len(d)
            /\ SubSeq(new, 1, Len(old)) = old
            /\ \A i, j \in 1..Len(d) :
                  added(i).skuCode = added(j).skuCode /\ added(i).skuCode # Undefined
            /\ \A i \in 1..Len(d) :
                  /\ added(i).price = d[i].price
                  /\ i \notin lacking => added(i).stripePriceId = d[i].stripePriceId
                  /\ i \in lacking =>
                        /\ added(i).stripePriceId \in NewPriceIds
                        /\ stripePrices'[added(i).stripePriceId].unit_amount
                              = d[i].price * 100
            /\ Cardinality(NewPriceIds) = Cardinality(lacking)
            /\ OldPricesKept ]_vars

C5_Witness ==
    /\ last.op = "updateProductSku"
    /\ last.error = ""
    /\ \E i, j \in 1..Len(last.args.skuDetails) :
          /\ last.args.skuDetails[i].stripePriceId = Undefined
          /\ last.args.skuDetails[j].stripePriceId # Undefined

\* C6, the part that holds whatever the patch: a successful
\* updateProductSkuById whose patch price differs from the SKU's price creates
\* one ledger price (price * 100, the SKU's own skuCode), stores its id on the
\* SKU and leaves every earlier ledger price as it was; a patch with the same
\* price creates no ledger price.
C6_Minting(sku, sku2, data) ==
    /\ OldPricesKept
    /\ data.price # sku.price =>
          /\ NewPriceIds = {sku2.stripePriceId}
          /\ stripePrices'[sku2.stripePriceId].unit_amount = data.price * 100
          /\ stripePrices'[sku2.stripePriceId].metadata.skuCode = sku.skuCode
          /\ stripePrices'[sku2.stripePriceId].active
    /\ data.price = sku.price => NewPriceIds = {}

C6_Step(kept(_, _, _)) ==
    (last'.op = "updateProductSkuById" /\ last'.error = "")
    =>
    LET sku == SkuOf(products, last'.args.productId, last'.args.skuId)
        sku2 == SkuOf(products', last'.args.productId, last'.args.skuId)
        data == last'.args.data
    IN  /\ C6_Minting(sku, sku2, data)
        /\ data.price = sku.price => kept(sku, sku2, data)

C6_KeptAsClaimed(sku, sku2, data) == sku2.stripePriceId = sku.stripePriceId

C6_KeptOrPatched(sku, sku2, data) ==
    sku2.stripePriceId = IF data.stripePriceId # Undefined
                         THEN data.stripePriceId ELSE sku.stripePriceId

\* C6 as claimed: ... and a patch with the same price leaves the SKU's
\* stripePriceId as it was.
C6_SamePriceKeepsReference == [][C6_Step(C6_KeptAsClaimed)]_vars

\* C6 as amended: ... and a patch with the same price leaves the SKU's
\* stripePriceId as it was unless the patch itself carries a stripePriceId,
\* which is then stored on the SKU.
C6_SamePriceKeepsOrPatchesReference == [][C6_Step(C6_KeptOrPatched)]_vars

C6_Witness ==
    /\ last.op = "updateProductSkuById"
    /\ last.error = ""
    /\ last.trace = <<"productDB.findOne", "productDB.findOneAndUpdate">>
    /\ last.args.data.stripePriceId # Undefined
    /\ \E id \in DOMAIN stripePrices :
          /\ id # last.args.data.stripePriceId
          /\ stripePrices[id].active
          /\ \A i \in 1..Len(LastProduct.skuDetails) :
                LastProduct.skuDetails[i].stripePriceId # id

----------------------------------------------------------------------------
(* Claims about the product handlers *)


\* C7: uploadProductImage on a product that has imageDetails.public_id issues
\* the destroy of the old asset first and issues the upload only after the
\* destroy has completed (none if the destroy rejects); the calls then go
\* upload, delete temporary file, local image update, ledger image update,
\* and each write is in place only if the one before it is.
C7_UploadOrder ==
    [][ (last'.op = "uploadProductImage" /\ last'.args.id \in DOMAIN products)
        =>
        LET id == last'.args.id
            old == products[id].imageDetails
            t == last'.trace
            expected ==
                <<"productDB.findOne">>
                \o (IF old # Undefined THEN <<"cloudinary.uploader.destroy">> ELSE <<>>)
                \o <<"cloudinary.uploader.upload", "unlinkSync",
                     "productDB.findOneAndUpdate", "stripeClient.products.update">>
        IN  /\ IsPrefix(t, expected)
            /\ last'.error = "" => t = expected
            /\ old # Undefined =>
                  /\ Has(t, "cloudinary.uploader.upload") => old \notin mediaAssets'
                  /\ (last'.error # "" /\ t[Len(t)] = "cloudinary.uploader.destroy")
                        => mediaAssets' = mediaAssets
            /\ products' # products =>
                  /\ products'[id].imageDetails \in mediaAssets' \ mediaAssets
                  /\ products'[id].image = SecureUrl(products'[id].imageDetails)
            /\ stripeProducts' # stripeProducts =>
                  /\ products' # products
                  /\ stripeProducts'[products[id].stripeProductId].images
                        = <<products'[id].image>> ]_vars

C7_Witness ==
    /\ last.op = "uploadProductImage"
    /\ last.error = ""
    /\ Has(last.trace, "cloudinary.uploader.destroy")
    /\ Cardinality(mediaAssets) = 1

\* C8: createProduct calls the ledger exactly when the input has no
\* stripeProductId, and before it writes the local record: a rejected ledger
\* creation leaves no local record, a rejected local write after the ledger
\* creation leaves the ledger product without a local counterpart, and on
\* success the stored stripeProductId is the ledger's new id (or the one
\* supplied).
C8_CreateProduct ==
    [][ last'.op = "createProduct"
        =>
        LET dto == last'.args
            t == last'.trace
            none == dto.stripeProductId = Undefined
            newLedger == DOMAIN stripeProducts' \ DOMAIN stripeProducts
            newLocal == DOMAIN products' \ DOMAIN products
        IN  /\ Has(t, "stripeClient.products.create") <=> none
            /\ ~none => stripeProducts' = stripeProducts
            /\ \A i \in DOMAIN products :
                  i \in DOMAIN products' /\ products'[i] = products[i]
            /\ (newLocal # {} /\ none) => newLedger # {}
            /\ (last'.error # "" /\ t[Len(t)] = "stripeClient.products.create")
                  => (newLedger = {} /\ newLocal = {})
            /\ (last'.error # "" /\ t[Len(t)] = "productDB.create")
                  => /\ newLocal = {}
                     /\ none => /\ Cardinality(newLedger) = 1
                                 /\ \A i \in DOMAIN products' :
                                       products'[i].stripeProductId \notin newLedger
            /\ last'.error = ""
                  => /\ newLocal = {last'.result}
                     /\ IF none
                        THEN newLedger = {products'[last'.result].stripeProductId}
                        ELSE products'[last'.result].stripeProductId
                               = dto.stripeProductId ]_vars

C8_Witness ==
    /\ last.op = "createProduct"
    /\ last.error # ""
    /\ last.trace = <<"stripeClient.products.create", "productDB.create">>
    /\ \E i \in DOMAIN stripeProducts :
          \A p \in DOMAIN products : products[p].stripeProductId # i

\* C9: findAllProducts with the homepage flag returns the grouped result
\* itself, with no metadata field, and never calls the paginated find; without
\* the flag the metadata has skip (0 when not given), limit (10 when not
\* given or 0), total = the count of the matching products, and pages =
\* ceil(total / limit) when a (non-zero) limit was given, 1 otherwise.
C9_FindAllProducts ==
    (last.op = "findAllProducts" /\ last.error = "")
    =>
    LET o == last.args.options
        total == Cardinality({i \in DOMAIN products :
                                 \/ last.args.criteria = Undefined
                                 \/ products[i].category = last.args.criteria})
        given(k) == k \in DOMAIN o /\ o[k] # 0
    IN  IF last.args.homepage
        THEN /\ "metadata" \notin DOMAIN last.result
             /\ DOMAIN last.result = {products[i].category : i \in DOMAIN products}
             /\ \A c \in DOMAIN last.result :
                   last.result[c] = {i \in DOMAIN products : products[i].category = c}
             /\ ~Has(last.trace, "productDB.find")
        ELSE LET m == last.result.metadata
             IN  /\ m.skip = IF given("skip") THEN o["skip"] ELSE 0
                 /\ m.limit = IF given("limit") THEN o["limit"] ELSE 10
                 /\ m.total = total
                 /\ IF given("limit")
                    THEN /\ m.pages * o["limit"] >= total
                         /\ (m.pages - 1) * o["limit"] < total
                    ELSE m.pages = 1

C9_Witness ==
    /\ last.op = "findAllProducts"
    /\ last.error = ""
    /\ ~last.args.homepage
    /\ "limit" \in DOMAIN last.args.options
    /\ last.args.options["limit"] = 2
    /\ last.result.metadata.total = 3
    /\ last.result.metadata.pages = 2

----------------------------------------------------------------------------
(* Claims about concurrent review requests *)

\* C10: with addProductReview requests interleaving at their awaits, every
\* reachable state has at most one Feedback entry per customerId per product.
C10_OneFeedbackPerCustomer ==
    \A p \in DOMAIN products :
        \A i, j \in 1..Len(products[p].feedbackDetails) :
            i # j => products[p].feedbackDetails[i].customerId
                       # products[p].feedbackDetails[j].customerId

----------------------------------------------------------------------------
(* Claims about licenses *)

\* C11: in every reachable state every License references a product that
\* exists and a SKU that is in that product's skuDetails.
C11_LicenseHasSku ==
    \A l \in licenses :
        /\ l.product \in DOMAIN products
        /\ FindSku(products[l.product], l.productSku) # {}

GuardedOps ==
    {"updateProductSkuById", "deleteProductSkuById", "addProductSkuLicense",
     "getProductSkuLicenses", "updateProductSkuLicense"}

NoTarget(productId, skuId) ==
    \/ productId \notin DOMAIN products
    \/ \A i \in 1..Len(products[productId].skuDetails) :
          products[productId].skuDetails[i]._id # skuId

\* C12: updateProductSkuById, deleteProductSkuById, addProductSkuLicense,
\* getProductSkuLicenses and updateProductSkuLicense, called with a productId
\* of no product or a skuId that is not in the product's skuDetails, end in
\* a failure, issue no call but the read of the product, and leave the
\* product store, the license store and the payment ledger as they were.
C12_AbsentTargetFails ==
    [][ (last'.op \in GuardedOps
         /\ NoTarget(last'.args.productId, last'.args.skuId))
        =>
        /\ last'.error # ""
        /\ last'.trace = <<"productDB.findOne">>
        /\ products' = products
        /\ licenses' = licenses
        /\ stripePrices' = stripePrices
        /\ stripeProducts' = stripeProducts ]_vars

C12_Witness ==
    /\ last.op = "updateProductSkuLicense"
    /\ last.error = ErrSku
    /\ last.args.productId \in DOMAIN products
    /\ products[last.args.productId].skuDetails # <<>>
    /\ \E l \in licenses : /\ l._id = last.args.licenseKeyId
                           /\ l.licenseKey # last.args.licenseKey

----------------------------------------------------------------------------
(* Claims about product update and removal *)

\* C13: removeProduct of an absent product fails and writes nothing; of an
\* existing product it issues findOneAndDelete and then products.del for the
\* stripeProductId the product had: a success leaves neither the local nor
\* the ledger product, the ledger product is never deleted while the local
\* one stays, and when products.del fails the call fails, the local product
\* is gone and the ledger is as it was.
C13_RemoveProduct ==
    [][ last'.op = "removeProduct"
        =>
        LET id == last'.args.id
            t == last'.trace
        IN  IF id \notin DOMAIN products
            THEN /\ last'.error # ""
                 /\ t = <<"productDB.findOne">>
                 /\ products' = products
                 /\ stripeProducts' = stripeProducts
            ELSE LET sp == products[id].stripeProductId
                     expected == <<"productDB.findOne", "productDB.findOneAndDelete",
                                   "stripeClient.products.del">>
                 IN  /\ IsPrefix(t, expected)
                     /\ \A i \in DOMAIN products \ {id} :
                           i \in DOMAIN products' /\ products'[i] = products[i]
                     /\ last'.error = "" =>
                           /\ t = expected
                           /\ id \notin DOMAIN products'
                           /\ sp \notin DOMAIN stripeProducts'
                     /\ stripeProducts' # stripeProducts => id \notin DOMAIN products'
                     /\ (last'.error # "" /\ Has(t, "stripeClient.products.del")) =>
                           /\ id \notin DOMAIN products'
                           /\ stripeProducts' = stripeProducts ]_vars

C13_Witness ==
    /\ last.op = "removeProduct"
    /\ last.error # ""
    /\ Has(last.trace, "stripeClient.products.del")
    /\ last.args.id \notin DOMAIN products
    /\ \E n \in 1..MaxProductId :
          /\ last.args.id = Id("P", n)
          /\ Id("prod_", n) \in DOMAIN stripeProducts

\* C14: updateProduct of an existing product issues findOneAndUpdate and
\* then, exactly when the input carries no stripeProductId, products.update
\* for the stripeProductId the product had before the call.  Once
\* findOneAndUpdate has completed the local record carries the input's
\* fields, whether or not the ledger call then fails; the ledger product gets
\* the input's name and description on success, and the ledger is untouched
\* when the input carries a stripeProductId or the ledger call fails.
C14_UpdateProduct ==
    [][ (last'.op = "updateProduct" /\ last'.args.id \in DOMAIN products)
        =>
        LET id == last'.args.id
            dto == last'.args.updateProductDto
            t == last'.trace
            old == products[id]
            carries == dto.stripeProductId # Undefined
            expected == <<"productDB.findOne", "productDB.findOneAndUpdate">>
                          \o (IF carries THEN <<>> ELSE <<"stripeClient.products.update">>)
            patched == last'.error = "" \/ Has(t, "stripeClient.products.update")
        IN  /\ IsPrefix(t, expected)
            /\ last'.error = "" => t = expected
            /\ Has(t, "stripeClient.products.update") => ~carries
            /\ patched =>
                  /\ products'[id].productName = dto.productName
                  /\ products'[id].description = dto.description
                  /\ products'[id].category = dto.category
                  /\ products'[id].stripeProductId =
                        IF carries THEN dto.stripeProductId ELSE old.stripeProductId
                  /\ products'[id].skuDetails = old.skuDetails
                  /\ products'[id].feedbackDetails = old.feedbackDetails
            /\ ~patched => products' = products
            /\ (carries \/ last'.error # "") => stripeProducts' = stripeProducts
            /\ (~carries /\ last'.error = "") =>
                  /\ stripeProducts'[old.stripeProductId].name = dto.productName
                  /\ stripeProducts'[old.stripeProductId].description = dto.description
                  /\ \A i \in DOMAIN stripeProducts \ {old.stripeProductId} :
                        stripeProducts'[i] = stripeProducts[i] ]_vars

C14_Witness ==
    /\ last.op = "updateProduct"
    /\ last.error # ""
    /\ Has(last.trace, "stripeClient.products.update")
    /\ last.args.id \in DOMAIN products
    /\ products[last.args.id].productName = last.args.updateProductDto.productName
    /\ products[last.args.id].stripeProductId \in DOMAIN stripeProducts
    /\ stripeProducts[products[last.args.id].stripeProductId].name
          # last.args.updateProductDto.productName

====
